---- MODULE Spec2Model ----
(***************************************************************************)
(* Model of mongotools.  Spec: one bound DocumentForm or                   *)
(* EmbeddedDocumentForm over a small document schema, its validation       *)
(* (full_clean with BaseDocumentForm._post_clean), its save() and the      *)
(* caller's later instance.save().  SpecFiles: uploads saved through       *)
(* forms.utils.save_file into one GridFS collection.  SpecDecl: the class  *)
(* statement of a form (DocumentFormMetaClass, fields_for_document).       *)
(* SpecGen: DocumentFormFieldGenerator.generate on one schema field.       *)
(* SpecView: one request to a detail, create or update view.               *)
(*                                                                         *)
(* Schema of the form's document: name = StringField(required=True),       *)
(* age = IntField(), photo = FileField().  Schema of the parent document   *)
(* of an embedded form: child = EmbeddedDocumentField, children =          *)
(* ListField(EmbeddedDocumentField), tags = ListField(StringField),        *)
(* title = StringField.                                                    *)
(*                                                                         *)
(* Python values are modelled as strings: "None", "False", "" (empty       *)
(* input), "i7" (the int 7), "upload" (an UploadedFile), "proxy" (the      *)
(* GridFSProxy of a file field).                                           *)
(*                                                                         *)
(* Each specification moves its own variables and leaves the others at     *)
(* their idle values.                                                      *)
(***************************************************************************)
EXTENDS Integers, Sequences, FiniteSets, TLC

VARIABLES
    cfg,              \* form class options, constructor arguments, submitted data
    pc,               \* "bound" (not validated yet) or "cleaned" (full_clean has run)
    has_cleaned_data, \* the form has the attribute cleaned_data
    cleaned_data,     \* form.cleaned_data
    errors,           \* form._errors, keyed by field name or NON_FIELD_ERRORS
    instance,         \* form.instance: field name -> in-memory value
    file_field_data,  \* instance._file_field_data (empty: attribute not set)
    saveWrappers,     \* number of save_files_once_wrapper layers around instance.save
    hasSaveFiles,     \* instance.save_files is set
    stored,           \* the instance's document in its collection, or NoDoc
    files,            \* file storage: file field -> stored content
    parentVals,       \* parent document: field name -> in-memory value
    parentStored,     \* what the saved ancestor last persisted of the parent, or NoDoc
    result,           \* outcome of the last save()/instance.save() call
    lastOp,           \* the most recent handler call
    last,             \* the events of that call, in the order the code produces them
    nSaves,           \* number of form.save() calls so far
    nInstSaves,       \* number of explicit instance.save() calls so far
    \* SpecFiles
    gridfs,           \* filenames of the files that other documents hold in the collection
    grid,             \* file proxy -> filename of the file it holds, or None
    saved,            \* the save_file calls so far: proxy, desired name, stored name
    grid_content,     \* file proxy -> content type and data of the file it holds
    field_commit,     \* the latest save_file_field call, with the storage before it
    nCommits,         \* number of save_file_field calls so far
    bind_opts,        \* the _meta options of the form class being bound
    instances,        \* instance id -> the document instance, if it exists
    bound,            \* the latest BaseDocumentForm.__init__ call and its form
    nBinds,           \* number of forms bound so far
    \* SpecDecl
    meta,             \* the class statement: Meta.fields, declared fields, the generator
    meta_exclude,     \* the object that Meta.exclude refers to
    base_fields,      \* new_class.base_fields: field name -> form field
    decl_result,      \* "none", "class" (the class was created) or "FieldError"
    field_error,      \* the field names in the FieldError message
    nDecls,           \* number of class statements executed with this Meta
    \* SpecGen
    schema_field,     \* the mongoengine field handed to generate()
    formfield,        \* what generate() returned or raised
    \* SpecView
    view,             \* the view class and the request: kind, document, success_url, kwargs
    documents,        \* the documents of view.document's collection
    view_object,      \* self.object
    stage,            \* "start", "got" (get_object returned), "done" (response or exception)
    response,         \* what the request ended in
    lookups,          \* the queryset filters that were evaluated with get()
    form_saved,       \* what form.save() did in form_valid
    path              \* the FormMixin method that form_valid handed over to

formVars == <<cfg, pc, has_cleaned_data, cleaned_data, errors, instance,
              file_field_data, saveWrappers, hasSaveFiles, stored, files, parentVals,
              parentStored, result, lastOp, last, nSaves, nInstSaves>>

fileVars == <<gridfs, grid, saved, grid_content, field_commit, nCommits>>

declVars == <<meta, meta_exclude, base_fields, decl_result, field_error, nDecls>>

genVars == <<schema_field, formfield>>

viewVars == <<view, documents, view_object, stage, response, lookups, form_saved,
              path>>

bindVars == <<bind_opts, instances, bound, nBinds>>

vars == <<formVars, fileVars, declVars, genVars, viewVars, bindVars>>

----------------------------------------------------------------------------
\* Bounds of the model

MaxSaves == 2
MaxInstSaves == 1
MaxListLen == 2
MaxDepth == 2
MaxFileSaves == 3
MaxDecls == 2
MaxCommits == 2
MaxBinds == 2

----------------------------------------------------------------------------
\* Schema and values

None == "None"
NoDoc == [absent |-> TRUE]
NON_FIELD_ERRORS == "__all__"
EMPTY_VALUES == {"None", ""}

DocFields == {"name", "age", "photo"}
FileFields == {"photo"}
RequiredFields == {"name"}

ParentFields == {"child", "children", "tags", "title"}
EmbeddedDocumentFields == {"child"}
ListFields == {"children", "tags"}
EmbeddedListFields == {"children"}

EmptyMap == [x \in {} |-> None]

Restrict(f, S) == [x \in S |-> f[x]]

\* Meta.fields is None, or a list of names; Meta.exclude is None/empty or a list
FieldsOptions == {[none |-> TRUE, names |-> {}],
                  [none |-> FALSE, names |-> {"name", "photo"}]}
ExcludeOptions == {{}, {"age"}}

RawValues(f) ==
    CASE f = "name" -> {"", "a"}
      [] f = "age" -> {"", "7", "x"}
      [] f = "photo" -> {"", "clear", "upload"}

\* chains of ancestors, nearest first: chain[i] says whether ancestor i has a
\* save operation (a Document) or not (an EmbeddedDocument linked by _instance)
Chains == UNION {[1..n -> BOOLEAN] : n \in 1..MaxDepth}

----------------------------------------------------------------------------
\* The form's effective field set (self.fields), as fields_for_document
\* filters the schema by Meta.fields and Meta.exclude

FormFields(c) ==
    {f \in DocFields : (c.fields.none \/ f \in c.fields.names) /\ f \notin c.exclude}

\* document_to_dict's value for the file field: the instance's GridFSProxy,
\* which is truthy exactly when it holds a stored file
InitialOf(f, fs) == IF f \in FileFields /\ fs[f] # "none" THEN "proxy" ELSE None

\* Field.clean of the generated form field: [ok, value] or [ok = FALSE, msg]
CleanField(f, raw, initial) ==
    CASE f = "name" ->
            \* MongoCharField.to_python, then Field.validate for required
            LET v == IF raw \in EMPTY_VALUES THEN None ELSE raw
            IN IF v \in EMPTY_VALUES /\ f \in RequiredFields
               THEN [ok |-> FALSE, value |-> None, msg |-> "required"]
               ELSE [ok |-> TRUE, value |-> v, msg |-> ""]
      [] f = "age" ->
            \* forms.IntegerField: empty -> None, digits -> int, else invalid
            IF raw \in EMPTY_VALUES THEN [ok |-> TRUE, value |-> None, msg |-> ""]
            ELSE IF raw = "7" THEN [ok |-> TRUE, value |-> "i7", msg |-> ""]
            ELSE [ok |-> FALSE, value |-> None, msg |-> "invalid"]
      [] f = "photo" ->
            \* forms.FileField with a clearable widget, not required
            IF raw = "clear" THEN [ok |-> TRUE, value |-> "False", msg |-> ""]
            ELSE IF raw = "upload" THEN [ok |-> TRUE, value |-> "upload", msg |-> ""]
            ELSE [ok |-> TRUE, value |-> initial, msg |-> ""]

----------------------------------------------------------------------------
\* construct_instance: copy cleaned values into the instance; file fields are
\* collected into _file_field_data instead of being assigned

ConstructFields(cd, fields, exclude) ==
    {f \in DocFields : /\ f \in DOMAIN cd
                       /\ (fields.none \/ f \in fields.names)
                       /\ f \notin exclude}

construct_instance_skip_none(cd, inst, ffd, fields, exclude) ==
    [instance |-> [f \in DocFields |->
                     IF /\ f \in ConstructFields(cd, fields, exclude) \ FileFields
                        /\ cd[f] # None
                     THEN cd[f] ELSE inst[f]],
     file_field_data |-> ffd]

construct_instance(cd, inst, ffd, fields, exclude) ==
    LET sel == ConstructFields(cd, fields, exclude)
        file_field_list == sel \cap FileFields
    IN [instance |-> [f \in DocFields |->
                        IF f \in sel /\ f \notin FileFields THEN cd[f] ELSE inst[f]],
        file_field_data |-> IF file_field_list # {}
                            THEN Restrict(cd, file_field_list)
                            ELSE ffd]

\* as form_errors, never seeing an error
form_errors_ignored(errs) == FALSE

\* form.errors is truthy: the error mapping has a key
form_errors(errs) == DOMAIN errs # {}

\* as update_errors, without the non-field bucket
update_errors_fields_only(errs, cd, message_dict) ==
    LET fieldKeys == DOMAIN message_dict \ {NON_FIELD_ERRORS}
    IN [errors |-> [k \in DOMAIN errs \cup fieldKeys |->
                      IF k \in fieldKeys
                      THEN (IF k \in DOMAIN errs THEN errs[k] ELSE <<>>) \o message_dict[k]
                      ELSE errs[k]],
        cleaned_data |-> Restrict(cd, DOMAIN cd \ fieldKeys)]

\* as update_errors, the invalid fields left in cleaned_data
update_errors_keep_cleaned(errs, cd, message_dict) ==
    [errors |-> [k \in DOMAIN errs \cup DOMAIN message_dict |->
                   (IF k \in DOMAIN errs THEN errs[k] ELSE <<>>)
                       \o (IF k \in DOMAIN message_dict THEN message_dict[k] ELSE <<>>)],
     cleaned_data |-> cd]

\* BaseDocumentForm._update_errors
update_errors(errs, cd, message_dict) ==
    LET fieldKeys == DOMAIN message_dict \ {NON_FIELD_ERRORS}
        e1 == [k \in DOMAIN errs \cup fieldKeys |->
                 IF k \in fieldKeys
                 THEN (IF k \in DOMAIN errs THEN errs[k] ELSE <<>>) \o message_dict[k]
                 ELSE errs[k]]
        cd1 == Restrict(cd, DOMAIN cd \ fieldKeys)
        e2 == IF NON_FIELD_ERRORS \in DOMAIN message_dict
              THEN [k \in DOMAIN e1 \cup {NON_FIELD_ERRORS} |->
                      IF k = NON_FIELD_ERRORS
                      THEN (IF k \in DOMAIN e1 THEN e1[k] ELSE <<>>)
                               \o message_dict[NON_FIELD_ERRORS]
                      ELSE e1[k]]
              ELSE e1
    IN [errors |-> e2, cleaned_data |-> cd1]

\* as get_validation_exclusions, excluding only the fields that are not on the
\* form
get_validation_exclusions_form_only(c, errs, cd) ==
    {f \in DocFields : f \notin FormFields(c)}

\* BaseDocumentForm._get_validation_exclusions
get_validation_exclusions(c, errs, cd) ==
    {f \in DocFields :
        \/ f \notin FormFields(c)
        \/ (c.fields.names # {} /\ f \notin c.fields.names)
        \/ (c.exclude # {} /\ f \in c.exclude)
        \/ f \in DOMAIN errs
        \/ /\ f \notin RequiredFields
           /\ (IF f \in DOMAIN cd THEN cd[f] ELSE None) \in EMPTY_VALUES}

\* the errors dict of the ValidationError that instance.validate() raises:
\* a required field holding None, or a field whose validator rejects its value
\* (bad: the fields whose validator rejects, chosen by the environment)
ValidateErrors(inst, bad) ==
    {f \in DocFields : \/ (inst[f] = None /\ f \in RequiredFields)
                       \/ (inst[f] # None /\ f \in bad)}

----------------------------------------------------------------------------
\* Events: what a handler did, in the order the code does it

Ev(op) == [op |-> op, n |-> 0]
EvAt(op, i) == [op |-> op, n |-> i]

FieldOrder == <<"name", "age", "photo">>

\* save_file_field(value, instance, field_name) for one field: the new stored
\* content and the event, if the value asks for a commit
save_file_field(value, fs, f) ==
    IF value = "False"
    THEN [files |-> [fs EXCEPT ![f] = "none"], events |-> <<Ev("file_delete")>>]
    ELSE IF value = "upload"
    THEN [files |-> [fs EXCEPT ![f] = "new"], events |-> <<Ev("file_replace")>>]
    ELSE [files |-> fs, events |-> <<>>]

\* the closure save_files() of save_instance, from field i of the schema on
RECURSIVE save_files_from(_, _, _, _, _)
save_files_from(i, cd, fs, fields, exclude) ==
    IF i > Len(FieldOrder) THEN [files |-> fs, events |-> <<>>]
    ELSE LET f == FieldOrder[i]
             skip == \/ (~fields.none /\ f \notin fields.names)
                     \/ f \in exclude
                     \/ f \notin FileFields
             one == IF skip THEN [files |-> fs, events |-> <<>>]
                    ELSE save_file_field(IF f \in DOMAIN cd THEN cd[f] ELSE None, fs, f)
             rest == save_files_from(i + 1, cd, one.files, fields, exclude)
         IN [files |-> rest.files, events |-> one.events \o rest.events]

save_files(cd, fs, fields, exclude) ==
    LET r == save_files_from(1, cd, fs, fields, exclude)
    IN [files |-> r.files, events |-> <<Ev("save_files")>> \o r.events]

\* k calls of save_files() in a row
RECURSIVE save_files_times(_, _, _, _, _)
save_files_times(k, cd, fs, fields, exclude) ==
    IF k = 0 THEN [files |-> fs, events |-> <<>>]
    ELSE LET one == save_files(cd, fs, fields, exclude)
             rest == save_files_times(k - 1, cd, one.files, fields, exclude)
         IN [files |-> rest.files, events |-> one.events \o rest.events]

\* the event of a document's own save, by what the storage does with it
WriteEvent(outcome) == IF outcome = "ok" THEN "write" ELSE "write_" \o outcome

\* instance.save(...) when k save_files_once_wrapper layers wrap it: each layer
\* calls save_files() and restores the save it wrapped, the innermost then
\* calls the document's own save, whose outcome the environment decides
call_instance_save(k, cd, fs, fields, exclude, outcome) ==
    LET sf == save_files_times(k, cd, fs, fields, exclude)
    IN [files |-> sf.files,
        events |-> sf.events \o <<Ev(WriteEvent(outcome))>>,
        written |-> outcome = "ok"]

\* as commit_instance, with the two calls swapped
commit_instance_write_first(k, cd, fs, fields, exclude, outcome) ==
    LET call == call_instance_save(k, cd, fs, fields, exclude, outcome)
        after == save_files(cd, call.files, fields, exclude)
    IN [files |-> after.files, events |-> call.events \o after.events,
        written |-> call.written]

\* save_instance, commit=True, on an instance that has save: save_files(),
\* then instance.save(validate=False)
commit_instance(k, cd, fs, fields, exclude, outcome) ==
    LET first == save_files(cd, fs, fields, exclude)
        call == call_instance_save(k, cd, first.files, fields, exclude, outcome)
    IN [files |-> call.files, events |-> first.events \o call.events,
        written |-> call.written]

walk_to_document_top(chain, i) == Len(chain)

\* EmbeddedDocumentForm.save: the ancestor that doc.save() is called on
RECURSIVE walk_to_document(_, _)
walk_to_document(chain, i) ==
    IF ~chain[i] /\ i < Len(chain) THEN walk_to_document(chain, i + 1) ELSE i

----------------------------------------------------------------------------
\* Initial states: a form that its constructor accepted

Submissions == {x \in [DocFields -> {"", "a", "7", "x", "clear", "upload"}] :
                    \A f \in DocFields : x[f] \in RawValues(f)}

\* Meta.fields and Meta.exclude of the form class
MetaOptions == {<<fo, ex>> \in FieldsOptions \X ExcludeOptions : fo.none \/ ex = {}}

\* a DocumentForm for a new or an existing Document, or for a new
\* EmbeddedDocument (an instance without a save operation)
DocConfigs ==
    {[kind |-> "document", adding |-> a, hasSave |-> TRUE, fields |-> m[1],
      exclude |-> m[2], embedded_field |-> None, chain |-> <<>>, raw |-> r,
      dropsCleaned |-> d] :
        a \in BOOLEAN, m \in MetaOptions, r \in Submissions, d \in BOOLEAN}
    \cup
    {[kind |-> "document", adding |-> TRUE, hasSave |-> FALSE,
      fields |-> [none |-> TRUE, names |-> {}], exclude |-> {},
      embedded_field |-> None, chain |-> <<>>, raw |-> r, dropsCleaned |-> d] :
        r \in Submissions, d \in BOOLEAN}

\* an EmbeddedDocumentForm for a new embedded instance, all schema fields on
\* the form
EmbConfigs ==
    {[kind |-> "embedded", adding |-> TRUE, hasSave |-> h,
      fields |-> [none |-> TRUE, names |-> {}], exclude |-> {},
      embedded_field |-> ef, chain |-> ch, raw |-> r, dropsCleaned |-> FALSE] :
        h \in BOOLEAN, ef \in ParentFields \cup {None}, ch \in Chains \cup {<<>>},
        r \in {x \in Submissions : /\ x["age"] = "7"
                                   /\ x["photo"] \in {"clear", "upload"}
                                   /\ (x["name"] = "" => x["photo"] = "upload")}}

\* the parent's values before the form acts
ParentInits(c) ==
    {[child |-> ch, children |-> l, tags |-> <<"t1">>, title |-> "T"] :
        ch \in IF c.embedded_field = "child" THEN {None, "e1"} ELSE {None},
        l \in IF c.embedded_field = "children"
              THEN {SubSeq(<<"e1", "e2", "e3", "e4">>, 1, n) : n \in 0..MaxListLen}
              ELSE {<<"e1">>}}

\* no file proxy is in use
\* a proxy that holds no file
NoContent == [content_type |-> None, data |-> <<>>]

\* save_file_field was not called
NoCommit == [proxy |-> None]

FilesIdle ==
    /\ gridfs = {} /\ grid = <<>> /\ saved = <<>>
    /\ grid_content = <<>> /\ field_commit = NoCommit /\ nCommits = 0

\* no form class is being declared
DeclIdle ==
    /\ meta = None /\ meta_exclude = None /\ base_fields = <<>>
    /\ decl_result = "none" /\ field_error = {} /\ nDecls = 0

\* generate() has not been called
NoFormField == [form_class |-> "none"]
GenIdle == schema_field = [class |-> "none"] /\ formfield = NoFormField

\* no object: self.object = None, or form.save() returned None
NoObject == [pk |-> None, slug |-> None]

\* form.save() was not called
NotSaved == [called |-> FALSE]

\* no request is being handled
ViewIdle ==
    /\ view = None /\ documents = {} /\ view_object = NoObject /\ stage = "idle"
    /\ response = "none" /\ lookups = <<>> /\ form_saved = NotSaved /\ path = "none"

\* BaseDocumentForm.__init__ was not called
NoForm == [outcome |-> "none"]

\* no form is being bound
BindIdle ==
    /\ bind_opts = [document |-> None] /\ instances = <<>> /\ bound = NoForm
    /\ nBinds = 0

\* BaseDocumentForm.__init__: the instance the form is bound to, a fresh
\* document when none is given
InstanceAtBinding(c) ==
    IF c.adding
    THEN [f \in DocFields |-> IF f \in FileFields THEN "proxy" ELSE None]
    ELSE [name |-> "old", age |-> "i1", photo |-> "proxy"]

Init ==
    /\ cfg \in DocConfigs \cup EmbConfigs
    /\ pc = "bound"
    /\ has_cleaned_data = FALSE
    /\ cleaned_data = EmptyMap
    /\ errors = EmptyMap
    /\ instance = InstanceAtBinding(cfg)
    /\ file_field_data = EmptyMap
    /\ saveWrappers = 0
    /\ hasSaveFiles = FALSE
    /\ stored = IF cfg.adding \/ ~cfg.hasSave THEN NoDoc ELSE instance
    /\ files \in IF cfg.adding THEN {[f \in FileFields |-> "none"]}
                 ELSE [FileFields -> {"none", "old"}]
    /\ parentVals \in ParentInits(cfg)
    /\ parentStored = NoDoc
    /\ result = "none"
    /\ lastOp = "none"
    /\ last = <<>>
    /\ nSaves = 0
    /\ nInstSaves = 0
    /\ FilesIdle
    /\ DeclIdle
    /\ GenIdle
    /\ ViewIdle
    /\ BindIdle

----------------------------------------------------------------------------
\* BaseForm.full_clean (is_valid(), errors): _clean_fields, _clean_form and
\* BaseDocumentForm._post_clean.  The environment decides which field
\* validators of the document reject (bad), whether validate() raises a
\* ValidationError that names no field (raises), and what the document's
\* clean hook does (hook).

\* the sets of fields whose validator may reject in one validate() call
ValidatorFailures == {{}, DocFields} \cup {{f} : f \in DocFields}

\* what instance.validate() raised: the ValidationError and, in schema order,
\* the fields its errors dict names
RECURSIVE ValidationEvents(_, _)
ValidationEvents(verrs, order) ==
    IF order = <<>> THEN <<>>
    ELSE (IF Head(order) \in verrs THEN <<Ev("invalid_" \o Head(order))>> ELSE <<>>)
         \o ValidationEvents(verrs, Tail(order))

\* as post_clean, validating the instance before cleaned data is copied into it
post_clean_validate_first(c, e0, cd0, inst, ffd, bad, raises, hook) ==
    LET exclude == get_validation_exclusions(c, e0, cd0)
        verrs == ValidateErrors(inst, bad)
        used_errors == [f \in verrs \ exclude |-> <<"doc_invalid">>]
        u1 == IF verrs # {} \/ raises
              THEN update_errors(e0, cd0, used_errors)
              ELSE [errors |-> e0, cleaned_data |-> cd0]
        con == construct_instance(u1.cleaned_data, inst, ffd, c.fields, c.exclude)
        u2 == IF hook = "fail"
              THEN update_errors(u1.errors, u1.cleaned_data,
                                 [k \in {NON_FIELD_ERRORS} |-> <<"clean">>])
              ELSE u1
    IN [instance |-> con.instance, file_field_data |-> con.file_field_data,
        errors |-> u2.errors, cleaned_data |-> u2.cleaned_data,
        events |-> <<Ev("validate"), Ev("construct")>>
                       \o (IF hook = "unsupported" THEN <<>> ELSE <<Ev("clean_hook")>>)]

post_clean(c, e0, cd0, inst, ffd, bad, raises, hook) ==
    LET con == construct_instance(cd0, inst, ffd, c.fields, c.exclude)
        exclude == get_validation_exclusions(c, e0, cd0)
        verrs == ValidateErrors(con.instance, bad)
        used_errors == [f \in verrs \ exclude |-> <<"doc_invalid">>]
        u1 == IF verrs # {} \/ raises
              THEN update_errors(e0, cd0, used_errors)
              ELSE [errors |-> e0, cleaned_data |-> cd0]
        u2 == IF hook = "fail"
              THEN update_errors(u1.errors, u1.cleaned_data,
                                 [k \in {NON_FIELD_ERRORS} |-> <<"clean">>])
              ELSE u1
    IN [instance |-> con.instance, file_field_data |-> con.file_field_data,
        errors |-> u2.errors, cleaned_data |-> u2.cleaned_data,
        events |-> <<Ev("construct"), Ev("validate")>>
                       \o (IF verrs # {} \/ raises
                           THEN <<Ev("ValidationError")>>
                                    \o ValidationEvents(verrs, FieldOrder)
                           ELSE <<>>)
                       \o (IF hook = "unsupported" THEN <<>> ELSE <<Ev("clean_hook")>>)
                       \o (IF hook = "fail" THEN <<Ev("clean_failed")>> ELSE <<>>)]

FullClean ==
    /\ pc = "bound"
    /\ \E bad \in ValidatorFailures, raises \in BOOLEAN,
          hook \in {"unsupported", "ok", "fail"} :
        LET ff == FormFields(cfg)
            res == [f \in ff |-> CleanField(f, cfg.raw[f], InitialOf(f, files))]
            okf == {f \in ff : res[f].ok}
            cd0 == [f \in okf |-> res[f].value]
            e0 == [f \in ff \ okf |-> <<res[f].msg>>]
            pcl == post_clean(cfg, e0, cd0, instance, file_field_data, bad, raises, hook)
        IN /\ instance' = pcl.instance
           /\ file_field_data' = pcl.file_field_data
           /\ errors' = pcl.errors
           /\ cleaned_data' = IF cfg.dropsCleaned /\ DOMAIN pcl.errors # {}
                              THEN EmptyMap ELSE pcl.cleaned_data
           /\ has_cleaned_data' = ~(cfg.dropsCleaned /\ DOMAIN pcl.errors # {})
           /\ last' = <<Ev("clean_fields"), Ev("clean_form")>> \o pcl.events
    /\ pc' = "cleaned"
    /\ lastOp' = "full_clean"
    /\ UNCHANGED <<cfg, saveWrappers, hasSaveFiles, stored, files, parentVals,
                   parentStored, result, nSaves, nInstSaves>>

----------------------------------------------------------------------------
\* BaseDocumentForm.save(commit) of a DocumentForm, with save_instance inlined.
\* outcome is what the storage does with the write: "ok", "not_unique"
\* (mongoengine.NotUniqueError) or "error" (any other exception of the driver).
\* A form that was never validated has no cleaned_data either; only the first
\* save() of a form is explored in that state.

SaveOp(commit) == IF commit THEN "save(commit=True)" ELSE "save(commit=False)"

\* as is_commit, with the flag ignored
is_commit_always(commit) == TRUE

\* `if commit:` of save_instance
is_commit(commit) == commit

save_instance(commit, outcome) ==
    IF ~has_cleaned_data
    THEN \* construct_instance reads form.cleaned_data
         /\ result' = "AttributeError"
         /\ last' = <<>>
         /\ UNCHANGED <<instance, file_field_data, errors, saveWrappers, hasSaveFiles,
                        stored, files>>
    ELSE LET con == construct_instance(cleaned_data, instance, file_field_data,
                                       cfg.fields, cfg.exclude)
         IN /\ instance' = con.instance
            /\ file_field_data' = con.file_field_data
            /\ IF form_errors(errors)
               THEN /\ result' = "ValueError"
                    /\ last' = <<Ev("construct")>>
                    /\ UNCHANGED <<errors, saveWrappers, hasSaveFiles, stored, files>>
               ELSE IF ~cfg.hasSave
               THEN /\ hasSaveFiles' = TRUE
                    /\ result' = "instance"
                    /\ last' = <<Ev("construct")>>
                    /\ UNCHANGED <<errors, saveWrappers, stored, files>>
               ELSE IF is_commit(commit)
               THEN LET c == commit_instance(saveWrappers, cleaned_data, files,
                                             cfg.fields, cfg.exclude, outcome)
                    IN /\ files' = c.files
                       /\ saveWrappers' = 0
                       /\ last' = <<Ev("construct")>> \o c.events
                       /\ stored' = IF c.written THEN con.instance ELSE stored
                       /\ errors' = IF outcome = "not_unique"
                                    THEN update_errors(errors, cleaned_data,
                                           [k \in {NON_FIELD_ERRORS} |-> <<"not_unique">>]).errors
                                    ELSE errors
                       /\ result' = CASE outcome = "ok" -> "instance"
                                      [] outcome = "not_unique" -> "None"
                                      [] OTHER -> "OperationError"
                       /\ UNCHANGED hasSaveFiles
               ELSE /\ saveWrappers' = saveWrappers + 1
                    /\ result' = "instance"
                    /\ last' = <<Ev("construct")>>
                    /\ UNCHANGED <<errors, hasSaveFiles, stored, files>>

DocumentSave(commit) ==
    /\ cfg.kind = "document"
    /\ pc = "cleaned" \/ nSaves = 0
    /\ nSaves < MaxSaves
    /\ \E outcome \in {"ok", "not_unique", "error"} : save_instance(commit, outcome)
    /\ nSaves' = nSaves + 1
    /\ lastOp' = SaveOp(commit)
    /\ UNCHANGED <<cfg, pc, has_cleaned_data, cleaned_data, parentVals, parentStored,
                   nInstSaves>>

----------------------------------------------------------------------------
\* EmbeddedDocumentForm.save(commit).  outcome is what doc.save() of the
\* ancestor does: "ok", "not_unique" (NotUniqueError) or "validation_error"
\* (doc.save() validates the whole ancestor document).  self.errors validates
\* a form that was not validated yet, so the action is taken on a validated
\* form.

\* as embedded_config_missing, without the check of the field name
embedded_config_parent_only(chain, field_name) == chain = <<>>

\* `if not self.parent_document` and `if not field_name` (lines 431-440)
embedded_config_missing(chain, field_name) == chain = <<>> \/ field_name = None

\* the kind of the parent's field named by Meta.embedded_field (lines 445-455)
parent_field_kind(field_name) ==
    IF field_name \in EmbeddedDocumentFields THEN "embedded"
    ELSE IF field_name \in ListFields THEN "list"
    ELSE "unsupported"

\* as attach_instance, a single embedded value left as it was
attach_instance_list_only(pv, field_name) ==
    IF parent_field_kind(field_name) = "embedded"
    THEN pv
    ELSE [pv EXCEPT ![field_name] = Append(@, "inst")]

\* as attach_instance, the instance put at the head of a list
attach_instance_prepend(pv, field_name) ==
    IF parent_field_kind(field_name) = "embedded"
    THEN [pv EXCEPT ![field_name] = "inst"]
    ELSE [pv EXCEPT ![field_name] = <<"inst">> \o @]

\* the parent's values after the instance is attached to field_name
attach_instance(pv, field_name) ==
    IF parent_field_kind(field_name) = "embedded"
    THEN [pv EXCEPT ![field_name] = "inst"]
    ELSE [pv EXCEPT ![field_name] = Append(@, "inst")]

EmbeddedSave(commit) ==
    /\ cfg.kind = "embedded"
    /\ pc = "cleaned"
    /\ nSaves < MaxSaves
    /\ nSaves' = nSaves + 1
    /\ lastOp' = SaveOp(commit)
    /\ UNCHANGED <<cfg, pc, has_cleaned_data, cleaned_data, errors, instance,
                   file_field_data, stored, nInstSaves>>
    /\ IF form_errors(errors) \/ embedded_config_missing(cfg.chain, cfg.embedded_field)
       THEN /\ result' = "ValueError"
            /\ last' = <<>>
            /\ UNCHANGED <<saveWrappers, hasSaveFiles, files, parentVals, parentStored>>
       ELSE \* save_instance(..., commit=False, construct=False)
            /\ hasSaveFiles' = (hasSaveFiles \/ ~cfg.hasSave)
            /\ saveWrappers' = IF cfg.hasSave THEN saveWrappers + 1 ELSE saveWrappers
            /\ IF parent_field_kind(cfg.embedded_field) = "unsupported"
               THEN \* the message reads parent_field.__name__, which a field
                    \* object has only if its class defines it
                    /\ result' \in {"NotImplementedError", "AttributeError"}
                    /\ last' = <<>>
                    /\ UNCHANGED <<files, parentVals, parentStored>>
               ELSE /\ parentVals' = attach_instance(parentVals, cfg.embedded_field)
                    /\ IF ~commit
                       THEN /\ result' = "instance"
                            /\ last' = <<Ev("attach")>>
                            /\ UNCHANGED <<files, parentStored>>
                       ELSE \E outcome \in {"ok", "not_unique", "validation_error"} :
                            LET doc == walk_to_document(cfg.chain, 1)
                                sf == IF hasSaveFiles'
                                      THEN save_files(cleaned_data, files,
                                                      cfg.fields, cfg.exclude)
                                      ELSE [files |-> files, events |-> <<>>]
                            IN /\ files' = sf.files
                               /\ IF ~cfg.chain[doc]
                                  THEN \* doc.save does not exist
                                       /\ result' = "AttributeError"
                                       /\ last' = <<Ev("attach")>> \o sf.events
                                       /\ UNCHANGED parentStored
                                  ELSE /\ result' = CASE outcome = "ok" -> "instance"
                                                      [] outcome = "not_unique" -> "NotUniqueError"
                                                      [] OTHER -> "ValidationError"
                                       /\ last' = <<Ev("attach")>> \o sf.events \o
                                                  <<EvAt(WriteEvent(outcome), doc)>>
                                       /\ parentStored' = IF outcome = "ok"
                                                          THEN parentVals' ELSE parentStored

----------------------------------------------------------------------------
\* The caller's own instance.save() on the instance that form.save() handed
\* back (validate=True): the wrappers left by save(commit=False) run first

InstanceSave ==
    /\ cfg.hasSave
    /\ pc = "cleaned"
    /\ nSaves >= 1
    /\ nInstSaves < MaxInstSaves
    /\ nInstSaves' = nInstSaves + 1
    /\ lastOp' = "instance.save"
    /\ \E outcome \in {"ok", "not_unique", "validation_error"} :
        LET c == call_instance_save(saveWrappers, cleaned_data, files,
                                    cfg.fields, cfg.exclude, outcome)
        IN /\ files' = c.files
           /\ saveWrappers' = 0
           /\ stored' = IF c.written THEN instance ELSE stored
           /\ result' = CASE outcome = "ok" -> "saved"
                          [] outcome = "not_unique" -> "NotUniqueError"
                          [] OTHER -> "ValidationError"
           /\ last' = c.events
    /\ UNCHANGED <<cfg, pc, has_cleaned_data, cleaned_data, errors, instance,
                   file_field_data, hasSaveFiles, parentVals, parentStored, nSaves>>

----------------------------------------------------------------------------

Next ==
    /\ \/ FullClean
       \/ DocumentSave(TRUE)
       \/ DocumentSave(FALSE)
       \/ EmbeddedSave(TRUE)
       \/ EmbeddedSave(FALSE)
       \/ InstanceSave
    /\ UNCHANGED <<fileVars, declVars, genVars, viewVars, bindVars>>

Spec == Init /\ [][Next]_vars

----------------------------------------------------------------------------
\* SpecFiles: forms.utils.save_file on the file proxies of documents that keep
\* their files in one GridFS collection

\* no form is bound
FormIdle ==
    /\ cfg = None /\ pc = "idle" /\ has_cleaned_data = FALSE
    /\ cleaned_data = EmptyMap /\ errors = EmptyMap /\ instance = EmptyMap
    /\ file_field_data = EmptyMap /\ saveWrappers = 0 /\ hasSaveFiles = FALSE
    /\ stored = NoDoc /\ files = EmptyMap /\ parentVals = EmptyMap
    /\ parentStored = NoDoc /\ result = "none" /\ lastOp = "none" /\ last = <<>>
    /\ nSaves = 0 /\ nInstSaves = 0

\* the file proxies (one per file field of a document) that uploads are saved to
Proxies == {"p1", "p2"}

\* names of uploaded files (file.name)
UploadNames == {"a.txt", "a_1.txt", "b"}

\* names that files of other documents may have in the collection
OtherNames == {"a.txt", "a_1.txt", "a_2.txt", "b", "b_1"}

\* os.path.splitext on the upload names: the extension starts at the last dot
splitext(name) ==
    CASE name = "a.txt" -> [file_root |-> "a", file_ext |-> ".txt"]
      [] name = "a_1.txt" -> [file_root |-> "a_1", file_ext |-> ".txt"]
      [] OTHER -> [file_root |-> name, file_ext |-> ""]

\* "%s_%s%s" % (file_root, n, file_ext)
suffixed(name, n) ==
    splitext(name).file_root \o "_" \o ToString(n) \o splitext(name).file_ext

\* fs.exists(filename=name) over the whole collection
StoredNames(others, g) == (others \cup {g[p] : p \in DOMAIN g}) \ {None}

\* as get_unique_filename, taking the first suffix without looking it up
get_unique_filename_first_suffix(names, name) ==
    IF name \in names THEN suffixed(name, 1) ELSE name

\* the while loop of _get_unique_filename, count at n
RECURSIVE unique_filename_from(_, _, _, _)
unique_filename_from(names, name, candidate, n) ==
    IF candidate \in names
    THEN unique_filename_from(names, name, suffixed(name, n), n + 1)
    ELSE candidate

\* _get_unique_filename(fs, name)
get_unique_filename(names, name) == unique_filename_from(names, name, name, 1)

\* an UploadedFile: its name, its declared content type, the chunks of its
\* stream and the position the stream is at (a validator may have read it)
UploadData == <<"c1", "c2">>
Uploads ==
    [name : UploadNames, content_type : {"text/plain", "image/png"},
     data : {UploadData}, pos : 0..Len(UploadData)]

\* the upload of SpecFiles under each name
UploadNamed(name) ==
    [name |-> name, content_type |-> "text/plain", data |-> UploadData, pos |-> 0]

\* file.read(): the stream from position pos on
read_from(file, pos) == SubSeq(file.data, pos + 1, Len(file.data))

\* save_file(proxy, file): the name is looked up first, file.file.seek(0)
\* rewinds the stream, then proxy.replace deletes the file the proxy holds and
\* puts the upload under that name with its content type
save_file(p, file, others, g, c) ==
    LET filename == get_unique_filename(StoredNames(others, g), file.name)
    IN [grid |-> [g EXCEPT ![p] = filename],
        content |-> [c EXCEPT ![p] = [content_type |-> file.content_type,
                                      data |-> read_from(file, 0)]],
        filename |-> filename]

InitFiles ==
    /\ FormIdle
    /\ DeclIdle
    /\ GenIdle
    /\ ViewIdle
    /\ BindIdle
    /\ gridfs \in SUBSET OtherNames
    /\ grid = [p \in Proxies |-> None]
    /\ saved = <<>>
    /\ grid_content = [p \in Proxies |-> NoContent]
    /\ field_commit = NoCommit
    /\ nCommits = 0

\* save_file(proxy, file) called on its own
SaveFile(p, file) ==
    /\ Len(saved) < MaxFileSaves
    /\ LET sf == save_file(p, file, gridfs, grid, grid_content)
       IN /\ grid' = sf.grid
          /\ grid_content' = sf.content
          /\ saved' = Append(saved, [proxy |-> p, desired |-> file.name,
                                     filename |-> sf.filename])
    /\ UNCHANGED <<gridfs, field_commit, nCommits>>

NextFiles ==
    /\ \E p \in Proxies, name \in UploadNames : SaveFile(p, UploadNamed(name))
    /\ UNCHANGED <<formVars, declVars, genVars, viewVars, bindVars>>

SpecFiles == InitFiles /\ [][NextFiles]_vars

----------------------------------------------------------------------------
\* SpecCommit: forms.utils.save_file_field on the file fields of documents,
\* some of which hold a file already

\* the values a file field has in cleaned data: False (cleared), None, the
\* empty string, the field's stored-file proxy, or an UploadedFile
NoUpload == [name |-> None]
FieldValues ==
    {[kind |-> k, file |-> NoUpload] : k \in {"False", "None", "empty", "proxy"}}
    \cup {[kind |-> "upload", file |-> u] : u \in Uploads}

\* as save_file_field_in_storage, deleting on every false value
save_file_field_falsy_deletes(value, p, others, g, c) ==
    IF value.kind \in {"False", "None", "empty"}
    THEN [grid |-> [g EXCEPT ![p] = None], content |-> [c EXCEPT ![p] = NoContent]]
    ELSE IF value.kind = "upload"
    THEN LET sf == save_file(p, value.file, others, g, c)
         IN [grid |-> sf.grid, content |-> sf.content]
    ELSE [grid |-> g, content |-> c]

\* save_file_field(value, instance, field_name) on the storage, p being the
\* proxy instance[field_name]
save_file_field_in_storage(value, p, others, g, c) ==
    IF value.kind = "False"
    THEN \* instance[field_name].delete()
         [grid |-> [g EXCEPT ![p] = None], content |-> [c EXCEPT ![p] = NoContent]]
    ELSE IF value.kind = "upload"
    THEN LET sf == save_file(p, value.file, others, g, c)
         IN [grid |-> sf.grid, content |-> sf.content]
    ELSE [grid |-> g, content |-> c]

\* the file a proxy holds before the first call, if any
OldFile(p) == "old_" \o p
OldContent == [content_type |-> "text/plain", data |-> <<"o">>]

InitCommit ==
    /\ FormIdle
    /\ DeclIdle
    /\ GenIdle
    /\ ViewIdle
    /\ BindIdle
    /\ gridfs \in SUBSET {"a.txt", "b"}
    /\ \E held \in SUBSET Proxies :
          /\ grid = [p \in Proxies |-> IF p \in held THEN OldFile(p) ELSE None]
          /\ grid_content = [p \in Proxies |->
                                IF p \in held THEN OldContent ELSE NoContent]
    /\ saved = <<>>
    /\ field_commit = NoCommit
    /\ nCommits = 0

SaveFileField(p, value) ==
    /\ nCommits < MaxCommits
    /\ nCommits' = nCommits + 1
    /\ LET r == save_file_field_in_storage(value, p, gridfs, grid, grid_content)
       IN /\ grid' = r.grid
          /\ grid_content' = r.content
    /\ field_commit' = [proxy |-> p, value |-> value, grid |-> grid,
                        content |-> grid_content]
    /\ UNCHANGED <<gridfs, saved>>

NextCommit ==
    /\ \E p \in Proxies, value \in FieldValues : SaveFileField(p, value)
    /\ UNCHANGED <<formVars, declVars, genVars, viewVars, bindVars>>

SpecCommit == InitCommit /\ [][NextCommit]_vars

----------------------------------------------------------------------------
\* SpecDecl: the class statement of a form with Meta.document, that is
\* DocumentFormMetaClass.__new__ with fields_for_document.  The document has
\* the fields id (its identifier), title, body and blob, in this order.

DeclSchema == <<"id", "title", "body", "blob">>
id_field == "id"

Elems(seq) == {seq[i] : i \in DOMAIN seq}

\* Meta.fields: None or a list of names
DeclFieldsOptions ==
    {[none |-> TRUE, names |-> <<>>]} \cup
    {[none |-> FALSE, names |-> l] :
        l \in {<<>>, <<"title">>, <<"title", "blob">>, <<"id", "title">>,
               <<"body", "extra">>}}

\* Meta.exclude: None, a list or a tuple of names
DeclExcludeOptions ==
    {[none |-> TRUE, list |-> FALSE, names |-> <<>>],
     [none |-> FALSE, list |-> TRUE, names |-> <<"body">>],
     [none |-> FALSE, list |-> FALSE, names |-> <<"body">>],
     [none |-> FALSE, list |-> TRUE, names |-> <<"blob", "title">>],
     [none |-> FALSE, list |-> TRUE, names |-> <<"id">>]}

\* the fields declared on the class itself (get_declared_fields)
DeclaredOptions == {{}, {"body"}, {"extra"}, {"blob", "extra"}}

\* what formfield_generator.generate does with each schema field: it returns a
\* form field ("field"), raises NotImplementedError ("unsupported") or
\* returns None ("none")
GeneratorOptions ==
    {g \in [Elems(DeclSchema) -> {"field", "unsupported", "none"}] :
        g["title"] = "field" /\ g[id_field] # "none"}

\* `if exclude:`
truthy(ex) == ~ex.none /\ ex.names # <<>>

\* fields_for_document, lines 159-165: whether id_field is added to exclude
excludes_id(fields) == fields.none \/ id_field \notin Elems(fields.names)

\* as exclude_with_id, without the identifier field
exclude_without_id(fields, ex) == IF ex.none THEN <<>> ELSE ex.names

\* the local exclude of fields_for_document after lines 159-165
exclude_with_id(fields, ex) ==
    IF excludes_id(fields)
    THEN IF truthy(ex) THEN Append(ex.names, id_field) ELSE <<id_field>>
    ELSE IF ex.none THEN <<>> ELSE ex.names

\* what `exclude += (id_field,)` leaves in the caller's object: a list is
\* extended in place, a tuple is not
exclude_object_after(fields, ex) ==
    IF excludes_id(fields) /\ truthy(ex) /\ ex.list
    THEN [ex EXCEPT !.names = Append(ex.names, id_field)]
    ELSE ex

\* fields_for_document(document, fields, exclude, widgets, formfield_generator):
\* the SortedDict it returns, field name -> "formfield" or None
fields_for_document(gen, fields, ex) ==
    LET exclude == Elems(exclude_with_id(fields, ex))
        passed == {f \in Elems(DeclSchema) :
                      /\ fields.none \/ f \in Elems(fields.names)
                      /\ f \notin exclude}
        ignored == {f \in passed : gen[f] = "none"}
        field_list == [f \in passed \ ignored |->
                          IF gen[f] = "field" THEN "formfield" ELSE None]
    IN IF ~fields.none /\ fields.names # <<>>
       THEN [f \in {g \in Elems(fields.names) : g \notin exclude /\ g \notin ignored}
                |-> IF f \in DOMAIN field_list THEN field_list[f] ELSE None]
       ELSE field_list

none_document_fields(fields) == {k \in DOMAIN fields : fields[k] = None}

\* as missing_fields, not looking at the declared fields
missing_fields_undeclared_too(fields, declared_fields) ==
    none_document_fields(fields)

\* DocumentFormMetaClass.__new__, lines 243-245
missing_fields(fields, declared_fields) ==
    none_document_fields(fields) \ declared_fields

\* lines 253-258: the declared fields override, what is still None is deleted
overridden_fields(fields, declared_fields) ==
    LET updated == [n \in DOMAIN fields \cup declared_fields |->
                       IF n \in declared_fields THEN "declared" ELSE fields[n]]
    IN [n \in {k \in DOMAIN updated : updated[k] # None} |-> updated[n]]

InitDecl ==
    /\ FormIdle
    /\ FilesIdle
    /\ GenIdle
    /\ ViewIdle
    /\ BindIdle
    /\ meta \in {[fields |-> f, exclude |-> x, declared |-> d, gen |-> g] :
                    f \in DeclFieldsOptions, x \in DeclExcludeOptions,
                    d \in DeclaredOptions, g \in GeneratorOptions}
    /\ meta_exclude = meta.exclude
    /\ base_fields = <<>>
    /\ decl_result = "none"
    /\ field_error = {}
    /\ nDecls = 0

\* one class statement with this Meta (a form class, or a subclass of it that
\* inherits Meta)
Declare ==
    /\ nDecls < MaxDecls
    /\ nDecls' = nDecls + 1
    /\ LET fields == fields_for_document(meta.gen, meta.fields, meta_exclude)
           missing == missing_fields(fields, meta.declared)
       IN /\ meta_exclude' = exclude_object_after(meta.fields, meta_exclude)
          /\ IF missing # {}
             THEN /\ decl_result' = "FieldError"
                  /\ field_error' = missing
                  /\ base_fields' = <<>>
             ELSE /\ decl_result' = "class"
                  /\ field_error' = {}
                  /\ base_fields' = overridden_fields(fields, meta.declared)
    /\ UNCHANGED meta

NextDecl ==
    /\ Declare
    /\ UNCHANGED <<formVars, fileVars, genVars, viewVars, bindVars>>

SpecDecl == InitDecl /\ [][NextDecl]_vars

----------------------------------------------------------------------------
\* SpecGen: DocumentFormFieldGenerator.generate(field) without overrides on
\* one schema field

\* the generate_<classname> methods of the generator
Generators ==
    {"stringfield", "emailfield", "urlfield", "intfield", "floatfield",
     "decimalfield", "booleanfield", "datetimefield", "referencefield",
     "listfield", "filefield", "imagefield"}

\* field.__class__.__bases__ of the field classes without a generator of their
\* own: a StringField subclass of the application, mongoengine's DictField and
\* ObjectIdField
ClassBases ==
    [slugfield |-> {"stringfield"}, dictfield |-> {"complexbasefield"},
     objectidfield |-> {"basefield"}]

FieldClasses == Generators \cup DOMAIN ClassBases

\* django.utils.text.capfirst on the names and verbose names of the model
capfirst(x) ==
    CASE x = "first name" -> "First name"
      [] x = "fname" -> "Fname"
      [] OTHER -> x

\* the schema fields handed to generate(): inner is the field of a ListField
SchemaFields ==
    {[class |-> k, name |-> "fname", required |-> r, verbose_name |-> v,
      help_text |-> h, choices |-> c, inner |-> i] :
        k \in FieldClasses \ {"listfield"}, r \in BOOLEAN,
        v \in {None, "first name", "Age"}, h \in {None, "", "Your name"},
        c \in {<<>>, <<"x", "y">>}, i \in {"none"}}
    \cup
    {[class |-> "listfield", name |-> "fname", required |-> r, verbose_name |-> v,
      help_text |-> h, choices |-> <<>>, inner |-> i] :
        r \in BOOLEAN, v \in {None, "first name", "Age"},
        h \in {None, "", "Your name"}, i \in {"choices", "reference", "string"}}

\* django.db.models.fields.BLANK_CHOICE_DASH, by the value of its one choice
BLANK_CHOICE_DASH == <<"">>

\* get_field_choices(field, include_blank, blank_choice)
get_field_choices(field, include_blank) ==
    (IF include_blank THEN BLANK_CHOICE_DASH ELSE <<>>) \o field.choices

\* get_field_label: None when the field has neither verbose name nor name
get_field_label(field) ==
    IF field.verbose_name \notin {None, ""} THEN capfirst(field.verbose_name)
    ELSE IF field.name \notin {None, ""} THEN capfirst(field.name)
    ELSE None

\* get_field_help_text: None unless the field has a help text
get_field_help_text(field) ==
    IF field.help_text \notin {None, ""} THEN field.help_text ELSE None

\* django.forms.Field.__init__ with the keyword arguments of `defaults`:
\* help_text is stored as smart_unicode(help_text or '')
FormField(form_class, required, label, help_text, choices) ==
    [form_class |-> form_class, required |-> required, label |-> label,
     help_text |-> IF help_text = None THEN "" ELSE help_text,
     choices |-> choices]

NotImplementedError == [form_class |-> "NotImplementedError"]

\* the generate_<classname> method named g, applied to field
generate_with(g, field) ==
    LET label == get_field_label(field)
        help == get_field_help_text(field)
        plain(form_class) == FormField(form_class, field.required, label, help, <<>>)
    IN CASE g = "stringfield" ->
              IF field.choices # <<>>
              THEN FormField("TypedChoiceField", field.required, label, help,
                             get_field_choices(field, ~field.required))
              ELSE plain("MongoCharField")
         [] g = "emailfield" -> plain("EmailField")
         [] g = "urlfield" -> plain("URLField")
         [] g = "intfield" ->
              IF field.choices # <<>>
              THEN FormField("TypedChoiceField", field.required, label, help,
                             get_field_choices(field, TRUE))
              ELSE plain("IntegerField")
         [] g = "floatfield" -> plain("FloatField")
         [] g = "decimalfield" -> plain("DecimalField")
         [] g = "booleanfield" ->
              IF field.choices # <<>>
              THEN FormField("TypedChoiceField", field.required, label, help,
                             get_field_choices(field, TRUE))
              ELSE plain("BooleanField")
         [] g = "datetimefield" ->
              \* defaults has required, initial and label only
              FormField("DateTimeField", field.required, label, None, <<>>)
         [] g = "referencefield" -> plain("ReferenceField")
         [] g = "listfield" ->
              IF field.inner = "choices"
              THEN FormField("MultipleChoiceField", field.required, label, help,
                             <<"x", "y">>)
              ELSE IF field.inner = "reference"
              THEN plain("DocumentMultipleChoiceField")
              ELSE NotImplementedError
         [] g = "filefield" -> plain("FileField")
         [] g = "imagefield" -> plain("ImageField")

\* generate(field): the generator of the field's class, else that of a direct
\* base class, else NotImplementedError
generate(field) ==
    IF field.class \in Generators
    THEN generate_with(field.class, field)
    ELSE IF ClassBases[field.class] \cap Generators # {}
    THEN generate_with(CHOOSE g \in ClassBases[field.class] \cap Generators : TRUE,
                       field)
    ELSE NotImplementedError

InitGen ==
    /\ FormIdle
    /\ FilesIdle
    /\ DeclIdle
    /\ ViewIdle
    /\ BindIdle
    /\ schema_field \in SchemaFields
    /\ formfield = NoFormField

Generate ==
    /\ formfield.form_class = "none"
    /\ formfield' = generate(schema_field)
    /\ UNCHANGED schema_field

NextGen ==
    /\ Generate
    /\ UNCHANGED <<formVars, fileVars, declVars, viewVars, bindVars>>

SpecGen == InitGen /\ [][NextGen]_vars

----------------------------------------------------------------------------
\* SpecView: one request to a detail, create or update view.  The documents
\* of the collection have a primary key and a slug; slugs may repeat.

AllDocuments ==
    {[pk |-> "1", slug |-> "a"], [pk |-> "2", slug |-> "a"], [pk |-> "3", slug |-> "b"]}

\* self.kwargs.get(self.pk_url_kwarg, None), self.kwargs.get(self.slug_url_kwarg, None)
PkKwargs == {None, "1", "3", "9"}
SlugKwargs == {None, "a", "b", "z"}

Views ==
    [kind : {"detail", "create", "update"}, configured : BOOLEAN,
     success_url : BOOLEAN, pk : PkKwargs, slug : SlugKwargs]

NoFilter == [by |-> "none", value |-> None]

\* as get_object_filter, the slug taking precedence
get_object_filter_slug_first(pk, slug) ==
    IF slug # None THEN [by |-> "slug", value |-> slug]
    ELSE IF pk # None THEN [by |-> "pk", value |-> pk]
    ELSE NoFilter

\* get_object, lines 49-56: the filter put on the queryset
get_object_filter(pk, slug) ==
    IF pk # None THEN [by |-> "pk", value |-> pk]
    ELSE IF slug # None THEN [by |-> "slug", value |-> slug]
    ELSE NoFilter

\* queryset.filter(...): the documents that the filter matches
matching(docs, filter) ==
    {d \in docs : IF filter.by = "pk" THEN d.pk = filter.value
                  ELSE d.slug = filter.value}

\* get_object(): what it raises or returns, and the lookups it made
get_object(v, docs) ==
    LET filter == get_object_filter(v.pk, v.slug)
        found == matching(docs, filter)
    IN IF ~v.configured
       THEN \* get_queryset
            [raised |-> "ImproperlyConfigured", obj |-> NoObject, lookups |-> <<>>]
       ELSE IF filter = NoFilter
       THEN [raised |-> "AttributeError", obj |-> NoObject, lookups |-> <<>>]
       ELSE IF found = {}
       THEN [raised |-> "Http404", obj |-> NoObject, lookups |-> <<filter>>]
       ELSE IF Cardinality(found) > 1
       THEN [raised |-> "MultipleObjectsReturned", obj |-> NoObject,
             lookups |-> <<filter>>]
       ELSE [raised |-> "none", obj |-> CHOOSE d \in found : TRUE,
             lookups |-> <<filter>>]

InitView ==
    /\ FormIdle
    /\ FilesIdle
    /\ DeclIdle
    /\ GenIdle
    /\ BindIdle
    /\ view \in Views
    /\ documents \in SUBSET AllDocuments
    /\ view_object = NoObject
    /\ stage = "start"
    /\ response = "none"
    /\ lookups = <<>>
    /\ form_saved = NotSaved
    /\ path = "none"

\* BaseDetailView.get, BaseUpdateView.get/post: self.object = self.get_object()
GetObject ==
    /\ stage = "start"
    /\ view.kind \in {"detail", "update"}
    /\ LET got == get_object(view, documents)
       IN /\ lookups' = lookups \o got.lookups
          /\ view_object' = got.obj
          /\ IF got.raised # "none"
             THEN stage' = "done" /\ response' = got.raised
             ELSE IF view.kind = "detail"
             THEN stage' = "done" /\ response' = "object"
             ELSE stage' = "got" /\ response' = "none"
    /\ UNCHANGED <<view, documents, form_saved, path>>

\* the view is about to build its form: BaseCreateView has set self.object to
\* None, BaseUpdateView to the object it looked up
FormStage ==
    \/ view.kind = "create" /\ stage = "start"
    \/ view.kind = "update" /\ stage = "got"

\* get_form_kwargs: the form's instance is None, or a second copy of the object
form_instance(v, docs, obj) ==
    IF obj = NoObject
    THEN [raised |-> "none", obj |-> NoObject, lookups |-> <<>>]
    ELSE get_object(v, docs)

\* BaseDocumentForm.save(): the instance, or None after NotUniqueError; any
\* other exception of the write propagates
form_save(inst, outcome) ==
    CASE outcome = "ok" ->
            [called |-> TRUE, raised |-> FALSE,
             instance |-> IF inst = NoObject THEN [pk |-> "new", slug |-> "n"]
                          ELSE [inst EXCEPT !.slug = "edited"]]
      [] outcome = "not_unique" ->
            [called |-> TRUE, raised |-> FALSE, instance |-> NoObject]
      [] OTHER -> [called |-> TRUE, raised |-> TRUE, instance |-> NoObject]

\* as form_valid_path, going on to the success path whatever save returned
form_valid_path_always_valid(inst) == "form_valid"

\* form_valid, lines 195-200: which method of FormMixin it returns through
form_valid_path(inst) ==
    IF inst = NoObject THEN "form_invalid" ELSE "form_valid"

\* ProcessFormView.post with a valid form: form_valid(form)
FormValid ==
    /\ FormStage
    /\ stage' = "done"
    /\ LET fi == form_instance(view, documents, view_object)
       IN /\ lookups' = lookups \o fi.lookups
          /\ IF fi.raised # "none"
             THEN /\ response' = fi.raised
                  /\ UNCHANGED <<view_object, form_saved, path>>
             ELSE \E outcome \in {"ok", "not_unique", "error"} :
                  LET saved_ == form_save(fi.obj, outcome)
                  IN /\ form_saved' = saved_
                     /\ IF saved_.raised
                        THEN /\ response' = "OperationError"
                             /\ UNCHANGED <<view_object, path>>
                        ELSE /\ path' = form_valid_path(saved_.instance)
                             /\ IF path' = "form_invalid"
                                THEN /\ response' = "redisplay"
                                     /\ UNCHANGED view_object
                                ELSE /\ view_object' = saved_.instance
                                     /\ response' = IF view.success_url
                                                    THEN "redirect"
                                                    ELSE "ImproperlyConfigured"
    /\ UNCHANGED <<view, documents>>

\* ProcessFormView.post with an invalid form: form_invalid(form)
FormInvalid ==
    /\ FormStage
    /\ stage' = "done"
    /\ LET fi == form_instance(view, documents, view_object)
       IN /\ lookups' = lookups \o fi.lookups
          /\ response' = IF fi.raised # "none" THEN fi.raised ELSE "redisplay"
    /\ UNCHANGED <<view, documents, view_object, form_saved, path>>

NextView ==
    /\ \/ GetObject
       \/ FormValid
       \/ FormInvalid
    /\ UNCHANGED <<formVars, fileVars, declVars, genVars, bindVars>>

SpecView == InitView /\ [][NextView]_vars

----------------------------------------------------------------------------
\* SpecBind: BaseDocumentForm.__init__ over a document class with an id, a
\* string field and a reference field

BindSchema == {"id", "title", "author"}
BindReferenceFields == {"author"}

\* the keys a dict of initial data can have, and the mark of a missing key
BindKeys == BindSchema \cup {"extra"}
Absent == "absent"
EmptyDict == [k \in BindKeys |-> Absent]

\* dict.update(other)
dict_update(d, other) ==
    [k \in BindKeys |-> IF other[k] # Absent THEN other[k] ELSE d[k]]

\* unicode(document.id) of a referenced document
unicode_id(doc) == IF doc = "doc7" THEN "7" ELSE "9"

\* _meta.fields and _meta.exclude: None or a list of names
BindFieldsOptions ==
    {[none |-> TRUE, names |-> <<>>]} \cup
    {[none |-> FALSE, names |-> l] :
        l \in {<<>>, <<"title">>, <<"title", "author">>}}
BindExcludeOptions ==
    {[none |-> TRUE, names |-> <<>>]} \cup
    {[none |-> FALSE, names |-> l] : l \in {<<>>, <<"author">>, <<"id">>}}

\* the `initial` argument: None or a dict
InitialOptions ==
    {[none |-> TRUE, dict |-> EmptyDict]} \cup
    {[none |-> FALSE, dict |-> d] :
        d \in {EmptyDict,
               [EmptyDict EXCEPT !["title"] = "x"],
               [EmptyDict EXCEPT !["title"] = "x", !["extra"] = "e"],
               [EmptyDict EXCEPT !["author"] = "9"]}}

\* as document_to_dict, with every field of the document
document_to_dict_all_fields(values, fields, exclude) ==
    [k \in BindKeys |->
        IF k \notin BindSchema THEN Absent
        ELSE IF k \in BindReferenceFields /\ values[k] # None
        THEN unicode_id(values[k])
        ELSE values[k]]

\* document_to_dict(instance, fields, exclude)
document_to_dict(values, fields, exclude) ==
    [k \in BindKeys |->
        IF k \notin BindSchema THEN Absent
        ELSE IF truthy(fields) /\ k \notin Elems(fields.names) THEN Absent
        ELSE IF truthy(exclude) /\ k \in Elems(exclude.names) THEN Absent
        ELSE IF k \in BindReferenceFields /\ values[k] # None
        THEN unicode_id(values[k])
        ELSE values[k]]

\* instance ids: 0 is the document loaded before any form is bound, the
\* form bound as number n creates instance n
InstanceIds == 0..MaxBinds
NoInstance == -1
Unborn == [exists |-> FALSE, adding |-> "unset",
           values |-> [f \in BindSchema |-> None]]

\* opts.document(): every field at its default
NewDocument == [exists |-> TRUE, adding |-> "unset",
                values |-> [f \in BindSchema |-> None]]

InitBind ==
    /\ FormIdle
    /\ FilesIdle
    /\ DeclIdle
    /\ GenIdle
    /\ ViewIdle
    /\ \E d \in {None, "Doc"}, fo \in BindFieldsOptions, ex \in BindExcludeOptions :
          bind_opts = [document |-> d, fields |-> fo, exclude |-> ex]
    /\ \E t \in {None, "t"}, a \in {None, "doc7"} :
          instances = [i \in InstanceIds |->
                         IF i = 0
                         THEN [exists |-> TRUE, adding |-> "unset",
                               values |-> [id |-> "i1", title |-> t, author |-> a]]
                         ELSE Unborn]
    /\ bound = NoForm
    /\ nBinds = 0

\* BaseDocumentForm.__init__(initial=initial, instance=inst)
Bind(inst, initial) ==
    /\ nBinds < MaxBinds
    /\ inst # NoInstance => instances[inst].exists
    /\ nBinds' = nBinds + 1
    /\ UNCHANGED bind_opts
    /\ LET call == [supplied |-> inst, explicit |-> initial, before |-> instances]
           new == nBinds + 1
       IN IF inst = NoInstance /\ bind_opts.document = None
          THEN /\ bound' = [outcome |-> "ValueError", call |-> call]
               /\ UNCHANGED instances
          ELSE LET self_instance == IF inst = NoInstance THEN new ELSE inst
                   object_data ==
                       IF inst = NoInstance THEN EmptyDict
                       ELSE document_to_dict(instances[inst].values,
                                             bind_opts.fields, bind_opts.exclude)
               IN /\ instances' =
                        [instances EXCEPT ![self_instance] =
                            IF inst = NoInstance
                            THEN [NewDocument EXCEPT !.adding = "True"]
                            ELSE [@ EXCEPT !.adding = "False"]]
                  /\ bound' = [outcome |-> "ok", call |-> call,
                               instance |-> self_instance,
                               initial |-> IF initial.none THEN object_data
                                           ELSE dict_update(object_data, initial.dict)]

NextBind ==
    /\ \E inst \in InstanceIds \cup {NoInstance}, initial \in InitialOptions :
          Bind(inst, initial)
    /\ UNCHANGED <<formVars, fileVars, declVars, genVars, viewVars>>

SpecBind == InitBind /\ [][NextBind]_vars

----------------------------------------------------------------------------
\* Properties

FileCommitOps == {"file_replace", "file_delete"}
WriteOps == {"write", "write_not_unique", "write_error", "write_validation_error"}
SaveOps == {SaveOp(TRUE), SaveOp(FALSE)}
RaisedErrors == {"ValueError", "AttributeError", "NotImplementedError",
                 "NotUniqueError", "ValidationError", "OperationError"}

HasEvent(evs, ops) == \E i \in DOMAIN evs : evs[i].op \in ops

\* every event of ops1 comes before every event of ops2
AllBefore(evs, ops1, ops2) ==
    \A i, j \in DOMAIN evs : (evs[i].op \in ops1 /\ evs[j].op \in ops2) => i < j

\* C1: save() of a DocumentForm whose error mapping is non-empty, with commit
\* True or False, raises; it writes nothing to storage and commits no file
\* field.
C1_ErrorsBlockSave ==
    [][(cfg.kind = "document" /\ nSaves' = nSaves + 1 /\ DOMAIN errors # {})
         => /\ result' \in {"ValueError", "AttributeError"}
            /\ stored' = stored
            /\ files' = files
            /\ ~HasEvent(last', WriteOps \cup FileCommitOps)]_vars

\* the form bound to {"name": ""} has the required error on name, and its
\* save() has raised with nothing stored
C1_Witness ==
    /\ cfg.kind = "document" /\ cfg.adding /\ cfg.raw["name"] = ""
    /\ cfg.raw["photo"] = "upload"
    /\ "name" \in DOMAIN errors /\ errors["name"] = <<"required">>
    /\ lastOp \in SaveOps /\ result = "ValueError"
    /\ stored = NoDoc /\ files["photo"] = "none"

C3_NoConstructAfterValidation ==
    (cfg.kind = "document" /\ pc = "cleaned" /\ lastOp = SaveOp(TRUE))
        => ~HasEvent(last, {"construct"})

\* C3 as amended: in validation, per-field cleaning comes before the
\* construction of the instance, which comes before document-level validation;
\* a save writes only on a validated form, and constructs the instance once
\* more before its write.
C3_ValidationOrder ==
    /\ lastOp = "full_clean"
         => /\ HasEvent(last, {"clean_fields"}) /\ HasEvent(last, {"construct"})
            /\ HasEvent(last, {"validate"})
            /\ AllBefore(last, {"clean_fields"}, {"construct"})
            /\ AllBefore(last, {"construct"}, {"validate", "clean_hook"})
    /\ (cfg.kind = "document" /\ lastOp \in SaveOps /\ HasEvent(last, WriteOps))
         => /\ pc = "cleaned"
            /\ HasEvent(last, {"construct"})
            /\ AllBefore(last, {"construct"}, WriteOps \cup FileCommitOps)

\* a validated form whose save(commit=True) constructed the instance and wrote it
C3_Witness ==
    /\ cfg.kind = "document" /\ pc = "cleaned" /\ lastOp = SaveOp(TRUE)
    /\ last[1].op = "construct" /\ last[Len(last)].op = "write"
    /\ stored = instance /\ instance["name"] = "a"

\* C4: when the write of DocumentForm.save(commit=True) fails on a uniqueness
\* constraint, save() returns None and the non-field bucket of the form's
\* errors holds the message.
C4_NotUniqueBecomesNonFieldError ==
    (cfg.kind = "document" /\ lastOp = SaveOp(TRUE)
                           /\ HasEvent(last, {"write_not_unique"}))
        => /\ result = "None"
           /\ NON_FIELD_ERRORS \in DOMAIN errors
           /\ \E i \in DOMAIN errors[NON_FIELD_ERRORS] :
                  errors[NON_FIELD_ERRORS][i] = "not_unique"

\* a save(commit=True) whose write hit the uniqueness constraint
C4_Witness ==
    /\ cfg.kind = "document" /\ lastOp = SaveOp(TRUE)
    /\ HasEvent(last, {"write_not_unique"})
    /\ result = "None" /\ DOMAIN errors = {NON_FIELD_ERRORS}

\* C5: a uniqueness conflict or a validator failure raised by the write of
\* save(commit=True) never reaches the caller as an exception, for either kind
\* of form; it is recorded in the form's errors.
C5_WriteFailuresNeverPropagate ==
    (lastOp = SaveOp(TRUE)
        /\ HasEvent(last, {"write_not_unique", "write_validation_error"}))
        => /\ result \notin RaisedErrors
           /\ DOMAIN errors # {}

C7_SingleFieldHoldsInstance ==
    [][(cfg.kind = "embedded" /\ nSaves' = nSaves + 1 /\ result' = "instance"
                              /\ cfg.embedded_field \in EmbeddedDocumentFields)
         => /\ parentVals'[cfg.embedded_field] = "inst"
            /\ \A f \in ParentFields \ {cfg.embedded_field} :
                   parentVals'[f] = parentVals[f]]_vars

\* a committed embedded save into the single-valued field of the parent
C7_Witness ==
    /\ cfg.kind = "embedded" /\ cfg.embedded_field = "child" /\ nSaves = 1
    /\ lastOp = SaveOp(TRUE) /\ result = "instance"
    /\ parentVals["child"] = "inst" /\ parentStored = parentVals

\* C8: a successful EmbeddedDocumentForm.save whose parent field is a list of
\* embedded values makes the list one longer, with the form's instance last
\* and the earlier elements unchanged and in the same order.
C8_ListGrowsByInstance ==
    [][(cfg.kind = "embedded" /\ nSaves' = nSaves + 1 /\ result' = "instance"
                              /\ cfg.embedded_field \in EmbeddedListFields)
         => LET before == parentVals[cfg.embedded_field]
                after == parentVals'[cfg.embedded_field]
            IN /\ Len(after) = Len(before) + 1
               /\ after[Len(after)] = "inst"
               /\ SubSeq(after, 1, Len(before)) = before]_vars

\* a list that held two elements, after one embedded save
C8_Witness ==
    /\ cfg.kind = "embedded" /\ cfg.embedded_field = "children" /\ nSaves = 1
    /\ result = "instance"
    /\ parentVals["children"] = <<"e1", "e2", "inst">>

\* C9: EmbeddedDocumentForm.save() on a form without errors, with no parent
\* document attached or no embedded_field configured, raises; it writes
\* nothing, commits no file field and leaves the parent as it was.
C9_MissingParentOrFieldRaises ==
    [][(cfg.kind = "embedded" /\ nSaves' = nSaves + 1 /\ DOMAIN errors = {}
          /\ (cfg.chain = <<>> \/ cfg.embedded_field = None))
         => /\ result' = "ValueError"
            /\ last' = <<>>
            /\ files' = files /\ stored' = stored
            /\ parentVals' = parentVals /\ parentStored' = parentStored]_vars

\* a valid embedded form with a parent and no embedded_field, after save()
C9_Witness ==
    /\ cfg.kind = "embedded" /\ DOMAIN errors = {} /\ pc = "cleaned"
    /\ cfg.chain # <<>> /\ cfg.embedded_field = None
    /\ lastOp = SaveOp(TRUE) /\ result = "ValueError" /\ parentStored = NoDoc

\* C10: EmbeddedDocumentForm.save() raises when the parent's field is neither
\* a single embedded value nor a list of embedded values (a list of other
\* elements included); the parent stays as it was and nothing is written.
C10_UnsupportedFieldRaises ==
    [][(cfg.kind = "embedded" /\ nSaves' = nSaves + 1 /\ DOMAIN errors = {}
          /\ cfg.chain # <<>>
          /\ cfg.embedded_field \in
                 ParentFields \ (EmbeddedDocumentFields \cup EmbeddedListFields))
         => /\ result' \in RaisedErrors
            /\ parentVals' = parentVals
            /\ parentStored' = parentStored]_vars

\* the events of evs whose operation is in ops
EventsOf(evs, ops) == {i \in DOMAIN evs : evs[i].op \in ops}

\* the nearest ancestor, counted from the attached parent, that has a save
\* operation of its own
NearestWithSave(chain) ==
    CHOOSE i \in DOMAIN chain : chain[i] /\ \A j \in 1..(i - 1) : ~chain[j]

\* C11: save(commit=True) of an EmbeddedDocumentForm whose parent chain, of
\* any depth, holds a document with a save operation invokes save exactly
\* once, on the nearest such ancestor counted from the attached parent; the
\* collection of the embedded instance itself is never written, and
\* save(commit=False) invokes no save operation at all.
C11_SaveOnNearestDocument ==
    [][(/\ cfg.kind = "embedded" /\ nSaves' = nSaves + 1
        /\ DOMAIN errors = {}
        /\ ~embedded_config_missing(cfg.chain, cfg.embedded_field)
        /\ parent_field_kind(cfg.embedded_field) # "unsupported")
         => /\ stored' = stored
            /\ (lastOp' = SaveOp(TRUE) /\ \E i \in DOMAIN cfg.chain : cfg.chain[i])
                 => /\ Cardinality(EventsOf(last', WriteOps)) = 1
                    /\ \A i \in EventsOf(last', WriteOps) :
                          last'[i].n = NearestWithSave(cfg.chain)
            /\ lastOp' = SaveOp(FALSE)
                 => /\ EventsOf(last', WriteOps) = {}
                    /\ parentStored' = parentStored]_vars

\* a committed save whose attached parent is itself embedded: the write went
\* to the document one level up
C11_Witness ==
    /\ cfg.kind = "embedded" /\ cfg.chain = <<FALSE, TRUE>>
    /\ lastOp = SaveOp(TRUE) /\ result = "instance"
    /\ \E i \in DOMAIN last : last[i] = EvAt("write", 2)
    /\ parentStored = parentVals /\ stored = NoDoc

\* a DocumentForm whose save(commit=True) has written the instance
C12_Saved ==
    /\ cfg.kind = "document" /\ cfg.hasSave /\ DOMAIN errors = {}
    /\ lastOp = SaveOp(TRUE) /\ result = "instance"

\* C12 as stated: after a save with zero validation errors every field of the
\* form that is in cleaned data has, on the persisted instance, the value held
\* in cleaned data.
C12_AllCleanedValuesPersisted ==
    C12_Saved => /\ stored # NoDoc
                 /\ \A f \in FormFields(cfg) \cap DOMAIN cleaned_data :
                       stored[f] = cleaned_data[f]

\* C12 as amended: after a save with zero validation errors every field of the
\* form that is in cleaned data and is not a file field has, on the persisted
\* instance, the value held in cleaned data; a file field is never assigned
\* from cleaned data, its stored file is replaced by an upload and deleted by
\* the clear value; fields excluded or outside the include list keep the value
\* the instance had when the form was bound.
C12_CleanedValuesPersisted ==
    C12_Saved => /\ stored # NoDoc
                 /\ \A f \in (FormFields(cfg) \cap DOMAIN cleaned_data) \ FileFields :
                       stored[f] = cleaned_data[f]
                 /\ \A f \in FileFields : stored[f] = InstanceAtBinding(cfg)[f]
                 /\ \A f \in FileFields \cap FormFields(cfg) \cap DOMAIN cleaned_data :
                       /\ cleaned_data[f] = "upload" => files[f] = "new"
                       /\ cleaned_data[f] = "False" => files[f] = "none"
                 /\ \A f \in DocFields \ FormFields(cfg) :
                       stored[f] = InstanceAtBinding(cfg)[f]

\* an existing document saved through a form without the age field: name is
\* the cleaned value, an emptied optional field is None, age is as it was
C12_Witness ==
    /\ C12_Saved /\ ~cfg.adding
    /\ \/ /\ "age" \notin FormFields(cfg) /\ stored["age"] = "i1"
          /\ stored["name"] = "a" /\ cleaned_data["name"] = "a"
       \/ /\ "age" \in FormFields(cfg) /\ cleaned_data["age"] = None
          /\ stored["age"] = None

\* C19 as stated: the first instance.save() after any number of
\* save(commit=False) calls commits the form's file fields exactly once, and
\* leaves the instance with its original save operation; an instance.save()
\* on an unwrapped instance commits no file field.
C19_FilesCommittedOnce ==
    [][(cfg.kind = "document" /\ lastOp' = "instance.save"
        /\ nInstSaves' = nInstSaves + 1)
         => /\ saveWrappers' = 0
            /\ saveWrappers >= 1
                 => /\ Cardinality(EventsOf(last', {"save_files"})) = 1
                    /\ AllBefore(last', {"save_files"} \cup FileCommitOps, WriteOps)
            /\ saveWrappers = 0
                 => EventsOf(last', {"save_files"} \cup FileCommitOps) = {}]_vars

\* whether the form's own cleaning of f, or the form's field set, keeps f out
\* of document-level validation: f is not on the form, failed its own
\* cleaning, or is optional and was left empty
C20_Excluded(f) ==
    LET res == CleanField(f, cfg.raw[f], InitialOf(f, files))
    IN \/ f \notin FormFields(cfg)
       \/ ~res.ok
       \/ (f \notin RequiredFields /\ res.value \in EMPTY_VALUES)

\* the fields that validate() reported and the form does not exclude
C20_Reported ==
    {f \in DocFields : HasEvent(last, {"invalid_" \o f}) /\ ~C20_Excluded(f)}

\* C20 as stated: whenever the document's validator fails during form
\* validation, the form ends up invalid.
C20_ValidatorFailureInvalidatesForm ==
    (lastOp = "full_clean" /\ HasEvent(last, {"ValidationError"}))
        => DOMAIN errors # {}

\* C20 as amended: a validator failure on a field that is on the form, passed
\* its own cleaning and is not empty-and-optional is appended to that field's
\* error list and the field leaves cleaned data; a failure on any other field
\* is not recorded; a failure of the document's clean hook is recorded in the
\* non-field bucket; the form is valid exactly when no field failed its own
\* cleaning, no failure was recorded and the clean hook did not fail.
C20_ValidatorFailuresRecorded ==
    lastOp = "full_clean"
        => /\ \A f \in C20_Reported :
                 /\ f \in DOMAIN errors /\ errors[f] = <<"doc_invalid">>
                 /\ f \notin DOMAIN cleaned_data
           /\ \A f \in DOMAIN errors \ (C20_Reported \cup {NON_FIELD_ERRORS}) :
                 \A i \in DOMAIN errors[f] : errors[f][i] # "doc_invalid"
           /\ HasEvent(last, {"clean_failed"})
                 <=> /\ NON_FIELD_ERRORS \in DOMAIN errors
                     /\ errors[NON_FIELD_ERRORS] = <<"clean">>
           /\ DOMAIN errors = {}
                 <=> /\ \A f \in FormFields(cfg) :
                           CleanField(f, cfg.raw[f], InitialOf(f, files)).ok
                     /\ C20_Reported = {}
                     /\ ~HasEvent(last, {"clean_failed"})

\* validate() rejected name and age of an existing document on a form without
\* the age field: name carries the failure, age's failure is not recorded
C20_Witness ==
    /\ lastOp = "full_clean" /\ cfg.kind = "document" /\ ~cfg.adding
    /\ "age" \notin FormFields(cfg)
    /\ HasEvent(last, {"invalid_name"}) /\ HasEvent(last, {"invalid_age"})
    /\ DOMAIN errors = {"name"} /\ errors["name"] = <<"doc_invalid">>
    /\ "name" \notin DOMAIN cleaned_data

\* the names in the collection when the latest save_file call began
C13_NamesBefore ==
    gridfs \cup {saved[i].filename : i \in {j \in 1..(Len(saved) - 1) :
                \A k \in (j + 1)..(Len(saved) - 1) : saved[k].proxy # saved[j].proxy}}

\* C13 as stated: a save under a name already present in storage produces a
\* name distinct from every name that an earlier save of the same desired name
\* produced.
C13_NeverAnEarlierName ==
    \A i, j \in DOMAIN saved :
        (i < j /\ saved[i].desired = saved[j].desired
         /\ saved[i].filename # saved[i].desired
         /\ saved[j].filename # saved[j].desired)
            => saved[i].filename # saved[j].filename

\* C13 as amended: save_file stores the upload under a name that no file in
\* storage has at that moment (the files of earlier saves that are still
\* stored included): the desired name itself when it is free, otherwise the
\* desired name with _<n> before its extension for the least n >= 1 that
\* makes a free name.
C13_FreeNameLeastSuffix ==
    saved # <<>>
        => LET s == saved[Len(saved)]
               before == C13_NamesBefore
           IN /\ s.filename \notin before
              /\ grid[s.proxy] = s.filename
              /\ s.desired \notin before => s.filename = s.desired
              /\ s.desired \in before
                   => \E n \in 1..(Cardinality(before) + 1) :
                         /\ s.filename = suffixed(s.desired, n)
                         /\ \A m \in 1..(n - 1) : suffixed(s.desired, m) \in before

\* two uploads named a.txt saved after a.txt was taken: a_1.txt, then a_2.txt
C13_Witness ==
    /\ "a.txt" \in gridfs /\ "a_1.txt" \notin gridfs /\ "a_2.txt" \notin gridfs
    /\ Len(saved) = 2
    /\ saved[1].desired = "a.txt" /\ saved[1].filename = "a_1.txt"
    /\ saved[2].desired = "a.txt" /\ saved[2].filename = "a_2.txt"
    /\ saved[1].proxy # saved[2].proxy

\* the names that Meta.exclude lists
C14_Excluded == IF meta.exclude.none THEN {} ELSE Elems(meta.exclude.names)

\* the fields selected for the form: the include list, or all schema fields,
\* minus the excluded ones; the identifier field counts as excluded unless
\* the include list names it
C14_Selected ==
    (IF meta.fields.none THEN Elems(DeclSchema) ELSE Elems(meta.fields.names))
        \ (C14_Excluded \cup
           (IF meta.fields.none \/ id_field \notin Elems(meta.fields.names)
            THEN {id_field} ELSE {}))

\* the selected fields that the generator does not support (or the schema
\* does not have) and the class does not declare
C14_Unresolved ==
    {f \in C14_Selected :
        /\ f \notin meta.declared
        /\ IF f \in Elems(DeclSchema) THEN meta.gen[f] = "unsupported" ELSE TRUE}

C15_BaseFieldsWellFormed ==
    decl_result = "class"
        => \A n \in DOMAIN base_fields :
              /\ n \in Elems(DeclSchema) \/ n \in meta.declared
              /\ n = id_field
                   => \/ (~meta.fields.none /\ id_field \in Elems(meta.fields.names))
                      \/ id_field \in meta.declared
              /\ (n \in C14_Excluded /\ n \in Elems(DeclSchema))
                   => (n \in meta.declared /\ base_fields[n] = "declared")
              /\ base_fields[n] # None

\* a class with body excluded, extra declared and a supported identifier
\* field: base_fields has title and extra, not id and not body
C15_Witness ==
    /\ decl_result = "class" /\ meta.fields.none /\ meta.gen[id_field] = "field"
    /\ "body" \in C14_Excluded /\ meta.declared = {"extra"}
    /\ "title" \in DOMAIN base_fields /\ "extra" \in DOMAIN base_fields
    /\ id_field \notin DOMAIN base_fields /\ "body" \notin DOMAIN base_fields

\* C16 as stated: the form field that generate(field) returns for a field
\* class with a generator of its own has the schema field's required-ness, its
\* label (the verbose name, or without one the field name, capitalised as it
\* is displayed) and its help text (none reads as the empty text).
C16_CarriesRequiredLabelHelp ==
    (formfield.form_class \notin {"none", "NotImplementedError"}
     /\ schema_field.class \in Generators)
        => /\ formfield.required = schema_field.required
           /\ formfield.label = capfirst(IF schema_field.verbose_name # None
                                         THEN schema_field.verbose_name
                                         ELSE schema_field.name)
           /\ formfield.help_text = (IF schema_field.help_text = None THEN ""
                                     ELSE schema_field.help_text)

\* C17: get_object of a view with a document looks the object up by primary
\* key when the request has one (a slug or not), else by the slug field when
\* it has a slug, and else raises the configuration error without a lookup;
\* a lookup that matches no document raises Http404 and returns no object,
\* and an object that is returned matches the lookup.
C17_GetObject ==
    [][(stage = "start" /\ stage' # "start" /\ view.kind \in {"detail", "update"}
        /\ view.configured)
         => /\ view.pk # None => lookups' = <<[by |-> "pk", value |-> view.pk]>>
            /\ (view.pk = None /\ view.slug # None)
                 => lookups' = <<[by |-> "slug", value |-> view.slug]>>
            /\ (view.pk = None /\ view.slug = None)
                 => /\ response' = "AttributeError" /\ lookups' = <<>>
                    /\ view_object' = NoObject
            /\ (lookups' # <<>>
                /\ \A d \in documents :
                      IF lookups'[1].by = "pk" THEN d.pk # lookups'[1].value
                      ELSE d.slug # lookups'[1].value)
                 => response' = "Http404" /\ view_object' = NoObject
            /\ view_object' # NoObject
                 => /\ view_object' \in documents
                    /\ response' \in {"none", "object"}
                    /\ IF view.pk # None THEN view_object'.pk = view.pk
                       ELSE view_object'.slug = view.slug]_vars

\* a request with both a primary key and a slug that name different
\* documents: the one with the primary key was returned
C17_Witness ==
    /\ view.kind = "detail" /\ view.pk = "1" /\ view.slug = "b"
    /\ AllDocuments \subseteq documents
    /\ response = "object" /\ view_object = [pk |-> "1", slug |-> "a"]
    /\ lookups = <<[by |-> "pk", value |-> "1"]>>

\* C18: form_valid goes on to the success path exactly when form.save()
\* returned an instance, and self.object is then that instance; when it
\* returned None the form-invalid path redisplays the form, nothing redirects,
\* and self.object is what it was before.
C18_FormValid ==
    [][(form_saved' # form_saved /\ ~form_saved'.raised)
         => /\ path' = "form_valid" <=> form_saved'.instance # NoObject
            /\ path' = "form_valid"
                 => /\ view_object' = form_saved'.instance
                    /\ response' \in {"redirect", "ImproperlyConfigured"}
            /\ form_saved'.instance = NoObject
                 => /\ path' = "form_invalid" /\ response' = "redisplay"
                    /\ view_object' = view_object]_vars

\* an update view whose form.save() returned None: the form is redisplayed
\* and self.object is still the object that was looked up
C18_Witness ==
    /\ view.kind = "update" /\ view.pk = "3"
    /\ form_saved = [called |-> TRUE, raised |-> FALSE, instance |-> NoObject]
    /\ path = "form_invalid" /\ response = "redisplay"
    /\ view_object = [pk |-> "3", slug |-> "b"]

\* C21: save_file_field with the value False deletes the file the field
\* holds; with an uploaded file it replaces the stored content by the whole
\* payload, read from the start of its stream, under the payload's content
\* type and a name free in storage; with any other value (None, empty, the
\* stored-file proxy) the field's file is left as it is.  The files of other
\* fields are never touched.
C21_CommitFileField ==
    nCommits >= 1
        => LET p == field_commit.proxy
               v == field_commit.value
           IN /\ \A q \in Proxies \ {p} :
                    /\ grid[q] = field_commit.grid[q]
                    /\ grid_content[q] = field_commit.content[q]
              /\ v.kind = "False"
                   => grid[p] = None /\ grid_content[p] = NoContent
              /\ v.kind = "upload"
                   => /\ grid_content[p] = [content_type |-> v.file.content_type,
                                            data |-> v.file.data]
                      /\ grid[p] \notin StoredNames(gridfs, field_commit.grid)
                      /\ grid[p] # None
              /\ v.kind \notin {"False", "upload"}
                   => /\ grid[p] = field_commit.grid[p]
                      /\ grid_content[p] = field_commit.content[p]

\* a field that held a file was committed with a half-read image upload and
\* holds the whole image afterwards
C21_Witness ==
    /\ nCommits >= 1
    /\ field_commit.value.kind = "upload"
    /\ field_commit.value.file.pos = 1
    /\ field_commit.value.file.content_type = "image/png"
    /\ field_commit.grid[field_commit.proxy] # None
    /\ grid[field_commit.proxy] # field_commit.grid[field_commit.proxy]
    /\ grid_content[field_commit.proxy] =
          [content_type |-> "image/png", data |-> UploadData]

\* C22 as stated: the form field generated for a string, integer or boolean
\* field with declared choices has the schema field's choices, after one
\* leading blank choice when the schema field is not required, and with no
\* blank choice when it is required.
C22_BlankChoiceIffNotRequired ==
    (formfield.form_class # "none"
     /\ schema_field.class \in {"stringfield", "intfield", "booleanfield"}
     /\ schema_field.choices # <<>>)
        => formfield.choices = (IF schema_field.required THEN <<>>
                                ELSE BLANK_CHOICE_DASH) \o schema_field.choices

\* C23 helpers: the field is among those document_to_dict takes from the
\* instance; the initial data the claim expects for key k with the instance
\* value shown as `shown`
C23_Taken(k) ==
    /\ k \in BindSchema
    /\ truthy(bind_opts.fields) => k \in Elems(bind_opts.fields.names)
    /\ truthy(bind_opts.exclude) => k \notin Elems(bind_opts.exclude.names)

C23_Explicit == bound.call.explicit.dict

C23_NewInstance ==
    /\ ~bound.call.before[bound.instance].exists
    /\ instances[bound.instance] = [NewDocument EXCEPT !.adding = "True"]
    /\ bound.initial = C23_Explicit

C23_OthersUntouched ==
    \A i \in InstanceIds \ {bound.instance} : instances[i] = bound.call.before[i]

C23_SameInstance ==
    /\ bound.instance = bound.call.supplied
    /\ instances[bound.instance].adding = "False"
    /\ instances[bound.instance].values = bound.call.before[bound.instance].values

C24_ConflictLeavesFilesAlone ==
    (cfg.kind = "document" /\ lastOp = SaveOp(TRUE) /\ result = "None"
     /\ HasEvent(last, {"write_not_unique"}))
        => ~HasEvent(last, FileCommitOps)

\* C25 as stated: after any number of declarations of form classes that share
\* an options object, its include and exclude lists have exactly the content
\* the author wrote.
C25_OptionsLeftAsWritten ==
    nDecls >= 1 => meta_exclude = meta.exclude

\* C26 helper: the field has an error recorded by document-level validation
C26_DocumentError(f) ==
    /\ f \in DOMAIN errors \ {NON_FIELD_ERRORS}
    /\ \E i \in DOMAIN errors[f] : errors[f][i] = "doc_invalid"

\* C26: in a validated form that has cleaned_data, no field with a
\* document-level error is a key of cleaned_data, and recording a non-field
\* error (a failed clean hook, a uniqueness conflict) removes nothing: the keys
\* of cleaned_data are exactly the form fields without an error.
C26_InvalidFieldsLeaveCleanedData ==
    (pc = "cleaned" /\ has_cleaned_data)
        => /\ \A f \in DocFields : C26_DocumentError(f) => f \notin DOMAIN cleaned_data
           /\ DOMAIN cleaned_data = FormFields(cfg) \ DOMAIN errors

\* a form with a document-level error on one field and a non-field error:
\* the field is gone from cleaned_data, the other fields are still there
C26_Witness ==
    /\ pc = "cleaned" /\ has_cleaned_data
    /\ \E f \in DocFields : C26_DocumentError(f)
    /\ NON_FIELD_ERRORS \in DOMAIN errors
    /\ DOMAIN cleaned_data # {}

====
